---- MODULE Spec2Model ----
(***************************************************************************)
(* The feature API of server.js: the count endpoint with its process-wide  *)
(* cache, the paginated batch endpoint, and the retry loops around both.   *)
(* Every action is one run of a handler from one await to the next: the    *)
(* event loop runs such a stretch without interleaving another handler.    *)
(***************************************************************************)
EXTENDS Integers, Sequences, FiniteSets, TLC

VARIABLES
    readyState,      \* mongoose.connection.readyState
    store,           \* the _id values of the documents in the collection
    clock,           \* Date.now(), in ms
    cachedCount,     \* server.js:88
    countCacheTime,  \* server.js:89
    cacheQueryTime,  \* history: when the query behind cachedCount was issued
    req,             \* per request slot: the handler's locals, position and response
    obs,             \* per request slot: history of the request (observation only)
    pager,           \* a client that fetches the collection page by page
    proc             \* the process: its environment, whether the first connection
                     \* failed, whether it has exited

vars == <<readyState, store, clock, cachedCount, countCacheTime, cacheQueryTime, req, obs, pager, proc>>

(* ------------------------------ bounds -------------------------------- *)
MaxReqs == 2
MaxDocs == 2
MaxSeconds == 30
MaxLimit == 2
MaxArriveSeconds == 1

Slots == 1..MaxReqs
DocIds == 1..MaxDocs
ErrMsgs == {"timeout", "network"}

(* ------------------------- program constants -------------------------- *)
Null == -1
COUNT_CACHE_TTL == 30000
\* Variant: one attempt fewer.
MaxRetriesTwo == 3 - 1

\* Variant: one attempt more.
MaxRetriesFour == 3 + 1

maxRetries == 3
DefaultPage == 0
DefaultLimit == 500
BackoffUnit == 1000
BackoffCap == 5000

(* ------------------------------ helpers ------------------------------- *)
Min(a, b) == IF a < b THEN a ELSE b

Abs(a) == IF a < 0 THEN -a ELSE a

RECURSIVE Pow2(_)
Pow2(n) == IF n <= 0 THEN 1 ELSE 2 * Pow2(n - 1)

SetMin(S) == CHOOSE x \in S : \A y \in S : x <= y

\* sort({ _id: 1 }): the ids in ascending order
RECURSIVE SortedIds(_)
SortedIds(S) == IF S = {} THEN <<>> ELSE <<SetMin(S)>> \o SortedIds(S \ {SetMin(S)})

(* --------------------------- query strings ---------------------------- *)
\* A query value is the sequence of its characters; <<>> is a parameter that is
\* missing or empty (parseInt gives NaN for both).
DigitChars == <<"0", "1", "2", "3", "4", "5", "6", "7", "8", "9">>

IsDigit(c) == \E i \in 1..10 : DigitChars[i] = c

DigitVal(c) == (CHOOSE i \in 1..10 : DigitChars[i] = c) - 1

RECURSIVE DigitPrefix(_, _)
\* value of the longest run of digits at the head of s, acc the value so far
DigitPrefix(s, acc) ==
    IF s = <<>> \/ ~IsDigit(Head(s)) THEN acc
    ELSE DigitPrefix(Tail(s), 10 * acc + DigitVal(Head(s)))

RECURSIVE SkipSpace(_)
SkipSpace(s) == IF s # <<>> /\ Head(s) = " " THEN SkipSpace(Tail(s)) ELSE s

\* parseInt(string): <<>> for NaN, <<n>> for the number n
ParseInt(raw) ==
    LET s == SkipSpace(raw)
        neg == s # <<>> /\ Head(s) = "-"
        t == IF s # <<>> /\ Head(s) \in {"-", "+"} THEN Tail(s) ELSE s
    IN  IF t = <<>> \/ ~IsDigit(Head(t)) THEN <<>>
        ELSE <<(IF neg THEN -1 ELSE 1) * DigitPrefix(t, 0)>>

\* parsed || dflt: NaN and 0 are falsy
OrDefault(parsed, dflt) == IF parsed = <<>> \/ parsed[1] = 0 THEN dflt ELSE parsed[1]

ParsePage(raw) == OrDefault(ParseInt(raw), DefaultPage)

ParseLimit(raw) == OrDefault(ParseInt(raw), DefaultLimit)

\* Variant: the first page is skipped too.
SkipNextPage(page, limit) == (page + 1) * limit

\* Variant: the page number is taken for the offset.
SkipPages(page, limit) == page

Skip(page, limit) == page * limit

(* ----------------------------- documents ------------------------------ *)
Undefined == "undefined"

\* The documents the collection can hold, by _id: with and without the optional fields.
Doc(id) ==
    [_id |-> id,
     geometry |-> IF id % 2 = 1 THEN "LineString" ELSE Undefined,
     properties |-> IF id % 3 = 1 THEN "{name}" ELSE Undefined,
     file |-> IF id % 3 = 1 THEN "roads" ELSE IF id % 3 = 2 THEN Undefined ELSE ""]

Falsy(v) == v = Undefined \/ v = ""

ToGeoJSON(f) ==
    [type |-> "Feature",
     geometry |-> IF Falsy(f.geometry) THEN "Point[0,0]" ELSE f.geometry,
     properties |-> IF Falsy(f.properties) THEN "{}" ELSE f.properties,
     file |-> IF Falsy(f.file) THEN "default" ELSE f.file,
     _id |-> f._id]

MapSeq(s, Op(_)) == [i \in 1..Len(s) |-> Op(s[i])]

\* Feature.find({}).sort({_id: 1}).skip(skip).limit(limit) on the collection S;
\* a negative limit is sent as its absolute value, a limit of 0 is no limit.
FindPage(S, skip, limit) ==
    LET all == SortedIds(S)
        last == IF limit = 0 THEN Len(all) ELSE Min(Len(all), skip + Abs(limit))
    IN  MapSeq(SubSeq(all, skip + 1, last), Doc)

\* The store rejects a negative skip: such a query always throws.
QueryRejected(skip) == skip < 0

(* ----------------------------- responses ------------------------------ *)
NoRes ==
    [code |-> 0, count |-> Null, cached |-> FALSE, features |-> <<>>, page |-> 0,
     limit |-> 0, hasMore |-> FALSE, error |-> "", message |-> "", attempts |-> 0,
     type |-> "", status |-> "", database |-> ""]

Error503 == [NoRes EXCEPT !.code = 503, !.error = "Database not connected"]

CountOk(count, cached) == [NoRes EXCEPT !.code = 200, !.count = count, !.cached = cached]

CountError500(msg) ==
    [NoRes EXCEPT !.code = 500, !.error = "Failed to count features", !.message = msg]

\* Variant: any non-empty page announces another one.
HasMoreNonEmpty(n, limit) == n > 0

HasMore(n, limit) == n = limit

BatchOk(features, page, limit) ==
    LET geojsonFeatures == MapSeq(features, ToGeoJSON)
    IN  [NoRes EXCEPT !.code = 200, !.features = geojsonFeatures, !.page = page,
                      !.limit = limit, !.hasMore = HasMore(Len(features), limit),
                      !.count = Len(geojsonFeatures)]

\* Variant: the error body also carries an empty page.
BatchError500WithPage(msg) ==
    [NoRes EXCEPT !.code = 500, !.error = "Failed to fetch batch after retries",
                  !.message = msg, !.attempts = maxRetries, !.count = 0]

BatchError500(msg) ==
    [NoRes EXCEPT !.code = 500, !.error = "Failed to fetch batch after retries",
                  !.message = msg, !.attempts = maxRetries]

(* ------------------------------ requests ------------------------------ *)
IdleReq ==
    [kind |-> "none", pc |-> "idle", owner |-> "anon", attempt |-> 0, now |-> 0,
     rawPage |-> <<>>, rawLimit |-> <<>>, page |-> 0, limit |-> 0,
     wakeAt |-> 0, res |-> NoRes]

NoObs ==
    [ready0 |-> 0,        \* readyState when the request arrived
     queries |-> 0,       \* store queries issued
     waits |-> <<>>,      \* backoff delays waited, in ms
     lastErr |-> "",      \* message of the last error a query threw
     transient |-> 0,     \* throws of queries the store accepts
     okAt |-> 0,          \* number of the attempt whose query returned, 0 if none
     gotCount |-> Null,   \* what that query returned (count)
     gotIds |-> <<>>,     \* what that query returned (_ids of the page)
     wasEmpty |-> FALSE,  \* batch: the collection has been empty since the arrival
     prior |-> {},        \* the requests already answered when this one arrived
     cacheAtCheck |-> "", \* count: the cache at the last check: empty, expired, fresh
     seenFrom |-> {},     \* count: the requests whose entry the cache held then
     askedAt |-> 0,       \* count: when the query now awaited was issued
     before |-> ""]       \* health: what the previous health call reported

Respond(r, res) == [r EXCEPT !.pc = "done", !.res = res]

Ids(features) == [i \in 1..Len(features) |-> features[i]._id]

(* --------------------------- count endpoint --------------------------- *)
\* Variant: only the closed connection counts as not ready.
NotConnectedOnlyClosed == readyState = 0

\* Variant: only a connection being opened counts as not ready.
NotConnectedWhileOpening == readyState = 2

NotConnected == readyState # 1

(* ------------------------------ process ------------------------------- *)
\* Variant: the process stays up only in production.
ExitsUnlessProduction(env) == env # "production"

\* process.env.NODE_ENV === 'development' (server.js:68)
ExitsOnFailure(env) == env = "development"

NodeEnvs == {"development", "production", Undefined}

MongoUris == {"mongodb://db/map", Undefined}

\* The process after the synchronous part of connectDB() (server.js:46-52, 65-71, 85):
\* an unset MONGO_URI throws before the first await, and the catch block runs at once.
StartProc(env, uri) ==
    [NODE_ENV |-> env, MONGO_URI |-> uri, failed |-> uri = Undefined,
     exited |-> uri = Undefined /\ ExitsOnFailure(env)]

Running == ~proc.exited

\* Variant: an entry never expires.
CacheFreshNoExpiry(now) == cachedCount # Null

\* Variant: the TTL is taken for seconds.
CacheFreshSeconds(now) ==
    cachedCount # Null /\ (now - countCacheTime) < COUNT_CACHE_TTL \div 1000

\* Variant: an entry exactly COUNT_CACHE_TTL old still counts as fresh.
CacheFreshInclusive(now) ==
    cachedCount # Null /\ (now - countCacheTime) <= COUNT_CACHE_TTL

CacheFresh(now) == cachedCount # Null /\ (now - countCacheTime) < COUNT_CACHE_TTL

\* What a request reading the clock at now finds in the cache.
CacheState(now) ==
    IF cachedCount = Null THEN "empty"
    ELSE IF now - countCacheTime >= 30000 THEN "expired" ELSE "fresh"

\* Variant: the delay does not grow with the attempt.
CountBackoffFlat(attempt) == BackoffUnit

CountBackoff(attempt) == BackoffUnit * attempt

\* The instants at which the clock is read: the arrival of a first request, the two
\* instants at which its backoff timers fall due, and the end of the run.
Instants == {0, CountBackoff(1), CountBackoff(1) + CountBackoff(2), 1000 * MaxSeconds}

\* The requests whose fresh (cached: false) response is the entry the cache holds.
CacheWriters(s) ==
    {t \in Slots \ {s} :
        /\ req[t].kind = "count" /\ req[t].pc = "done"
        /\ req[t].res.code = 200 /\ ~req[t].res.cached
        /\ req[t].res.count = cachedCount /\ req[t].now = countCacheTime}

\* One pass of the while loop from its top to the first await (server.js:97-114).
\* r and o are the request and its history at the loop top, base the other histories.
CountAttempt(s, r, o, base) ==
    IF NotConnected
    THEN /\ req' = [req EXCEPT ![s] = Respond(r, Error503)]
         /\ obs' = [base EXCEPT ![s] = o]
         /\ UNCHANGED <<cachedCount, countCacheTime, cacheQueryTime>>
    ELSE LET now == clock
             o1 == [o EXCEPT !.seenFrom = CacheWriters(s),
                             !.cacheAtCheck = CacheState(clock)]
         IN  IF CacheFresh(now)
             THEN /\ req' = [req EXCEPT ![s] =
                                Respond([r EXCEPT !.now = now], CountOk(cachedCount, TRUE))]
                  /\ obs' = [base EXCEPT ![s] = o1]
                  /\ UNCHANGED <<cachedCount, countCacheTime, cacheQueryTime>>
             ELSE /\ req' = [req EXCEPT ![s] = [r EXCEPT !.now = now, !.pc = "estimate"]]
                  /\ obs' = [base EXCEPT ![s] =
                                [o1 EXCEPT !.queries = @ + 1, !.askedAt = clock]]
                  /\ UNCHANGED <<cachedCount, countCacheTime, cacheQueryTime>>

\* The histories once slot s is taken by a new request: nothing refers to the old one.
Forget(s) == [t \in Slots |-> [obs[t] EXCEPT !.prior = @ \ {s}, !.seenFrom = @ \ {s}]]

\* The history a request starts with: the connection state it met and the requests
\* already answered.
NewObs(s) ==
    [NoObs EXCEPT !.ready0 = readyState,
                  !.prior = {t \in Slots \ {s} : req[t].pc = "done"}]

\* Variant: the backoff wait of a request holds up the requests that arrive meanwhile.
ArriveCountAfterRetries(s) ==
    /\ Running
    /\ req[s].pc \in {"idle", "done"}
    /\ \A t \in Slots : req[t].pc # "backoff"
    /\ CountAttempt(s, [IdleReq EXCEPT !.kind = "count"], NewObs(s), Forget(s))
    /\ UNCHANGED <<readyState, store, clock, pager, proc>>

\* A count request arrives: Express runs the handler up to its first await.
ArriveCount(s) ==
    /\ Running
    /\ req[s].pc \in {"idle", "done"}
    /\ CountAttempt(s, [IdleReq EXCEPT !.kind = "count"], NewObs(s), Forget(s))
    /\ UNCHANGED <<readyState, store, clock, pager, proc>>

\* Variant: the cache is stamped with the time of the write.
CountDoneStampedAtWrite(s, count) ==
    /\ cachedCount' = count
    /\ countCacheTime' = clock
    /\ cacheQueryTime' = obs[s].askedAt
    /\ req' = [req EXCEPT ![s] = Respond(@, CountOk(count, FALSE))]

\* The count was obtained (server.js:122-125): cache it and respond.
CountDone(s, count) ==
    /\ cachedCount' = count
    /\ countCacheTime' = req[s].now
    /\ cacheQueryTime' = obs[s].askedAt
    /\ req' = [req EXCEPT ![s] = Respond(@, CountOk(count, FALSE))]

\* The history of a request whose query returned result.
Returned(s, result) ==
    obs' = [obs EXCEPT ![s] = [@ EXCEPT !.okAt = req[s].attempt + 1, !.gotCount = result,
                                        !.askedAt = 0]]

EstimateReturns(s) ==
    /\ req[s].pc = "estimate"
    /\ CountDone(s, Cardinality(store))
    /\ Returned(s, Cardinality(store))
    /\ UNCHANGED <<readyState, store, clock, pager, proc>>

\* Variant: a failed estimate invalidates the cache.
EstimateThrowsClearsCache(s) ==
    /\ req[s].pc = "estimate"
    /\ req' = [req EXCEPT ![s].pc = "exact"]
    /\ obs' = [obs EXCEPT ![s] = [@ EXCEPT !.queries = @ + 1, !.askedAt = clock]]
    /\ cachedCount' = Null
    /\ UNCHANGED <<readyState, store, clock, countCacheTime, cacheQueryTime, pager, proc>>

\* estimatedDocumentCount threw: the inner catch issues countDocuments (server.js:116-118).
EstimateThrows(s) ==
    /\ req[s].pc = "estimate"
    /\ req' = [req EXCEPT ![s].pc = "exact"]
    /\ obs' = [obs EXCEPT ![s] = [@ EXCEPT !.queries = @ + 1, !.askedAt = clock]]
    /\ UNCHANGED <<readyState, store, clock, cachedCount, countCacheTime, cacheQueryTime, pager, proc>>

\* Variant: the count of the fallback query is sent but not cached.
ExactReturnsUncached(s) ==
    /\ req[s].pc = "exact"
    /\ req' = [req EXCEPT ![s] = Respond(@, CountOk(Cardinality(store), FALSE))]
    /\ Returned(s, Cardinality(store))
    /\ UNCHANGED <<readyState, store, clock, cachedCount, countCacheTime, cacheQueryTime, pager, proc>>

ExactReturns(s) ==
    /\ req[s].pc = "exact"
    /\ CountDone(s, Cardinality(store))
    /\ Returned(s, Cardinality(store))
    /\ UNCHANGED <<readyState, store, clock, pager, proc>>

\* The outer catch (server.js:127-139).
CountCatch(s, msg) ==
    LET attempt == req[s].attempt + 1
    IN  /\ IF attempt >= maxRetries
           THEN /\ req' = [req EXCEPT ![s] =
                              Respond([@ EXCEPT !.attempt = attempt], CountError500(msg))]
                /\ obs' = [obs EXCEPT ![s] = [@ EXCEPT !.lastErr = msg, !.transient = @ + 1,
                                                       !.askedAt = 0]]
           ELSE /\ req' = [req EXCEPT ![s] =
                              [@ EXCEPT !.attempt = attempt, !.pc = "backoff",
                                        !.wakeAt = clock + CountBackoff(attempt)]]
                /\ obs' = [obs EXCEPT ![s] =
                              [@ EXCEPT !.lastErr = msg, !.transient = @ + 1,
                                        !.askedAt = 0,
                                        !.waits = Append(@, CountBackoff(attempt))]]
        /\ UNCHANGED <<readyState, store, clock, cachedCount, countCacheTime, cacheQueryTime, pager, proc>>

ExactThrows(s, msg) ==
    /\ req[s].pc = "exact"
    /\ CountCatch(s, msg)

(* --------------------------- batch endpoint --------------------------- *)
\* Variant: the exponent is the attempt, not the attempt before it.
BatchBackoffEarly(attempt) == Min(BackoffUnit * Pow2(attempt), BackoffCap)

BatchBackoff(attempt) == Min(BackoffUnit * Pow2(attempt - 1), BackoffCap)

\* One pass of the while loop from its top to the await (server.js:149-170).
BatchAttempt(s, r, o, base) ==
    /\ IF NotConnected
       THEN /\ req' = [req EXCEPT ![s] = Respond(r, Error503)]
            /\ obs' = [base EXCEPT ![s] = o]
       ELSE /\ req' = [req EXCEPT ![s] =
                          [r EXCEPT !.page = ParsePage(r.rawPage),
                                    !.limit = ParseLimit(r.rawLimit),
                                    !.pc = "query"]]
            /\ obs' = [base EXCEPT ![s] = [o EXCEPT !.queries = @ + 1]]
    /\ UNCHANGED <<cachedCount, countCacheTime, cacheQueryTime>>

BatchReturns(s) ==
    /\ req[s].pc = "query"
    /\ ~QueryRejected(Skip(req[s].page, req[s].limit))
    /\ LET features == FindPage(store, Skip(req[s].page, req[s].limit), req[s].limit)
       IN  /\ req' = [req EXCEPT ![s] =
                         Respond(@, BatchOk(features, req[s].page, req[s].limit))]
           /\ obs' = [obs EXCEPT ![s] =
                         [@ EXCEPT !.okAt = req[s].attempt + 1, !.gotIds = Ids(features)]]
    /\ UNCHANGED <<readyState, store, clock, cachedCount, countCacheTime, cacheQueryTime, pager, proc>>

\* The catch of the batch loop (server.js:193-209).
BatchThrows(s, msg) ==
    /\ req[s].pc = "query"
    /\ LET attempt == req[s].attempt + 1
           \* a throw of a query the store accepts is a transient failure
           more == IF QueryRejected(Skip(req[s].page, req[s].limit)) THEN 0 ELSE 1
       IN  IF attempt >= maxRetries
           THEN /\ req' = [req EXCEPT ![s] =
                              Respond([@ EXCEPT !.attempt = attempt], BatchError500(msg))]
                /\ obs' = [obs EXCEPT ![s] =
                              [@ EXCEPT !.lastErr = msg, !.transient = @ + more]]
           ELSE /\ req' = [req EXCEPT ![s] =
                              [@ EXCEPT !.attempt = attempt, !.pc = "backoff",
                                        !.wakeAt = clock + BatchBackoff(attempt)]]
                /\ obs' = [obs EXCEPT ![s] =
                              [@ EXCEPT !.lastErr = msg, !.transient = @ + more,
                                        !.waits = Append(@, BatchBackoff(attempt))]]
    /\ UNCHANGED <<readyState, store, clock, cachedCount, countCacheTime, cacheQueryTime, pager, proc>>

PageInputs == {<<>>, <<"0">>, <<"1">>, <<"2">>, <<"-", "1">>, <<"x">>}

LimitInputs == {<<>>, <<"0">>, <<"1">>, <<"2">>, <<"-", "2">>, <<"2", "x">>}

\* A batch request arrives: Express runs the handler up to its await.
StartBatch(s, rawPage, rawLimit) ==
    /\ Running
    /\ req[s].pc \in {"idle", "done"}
    /\ BatchAttempt(s, [IdleReq EXCEPT !.kind = "batch", !.rawPage = rawPage,
                                       !.rawLimit = rawLimit],
                    [NewObs(s) EXCEPT !.wasEmpty = (store = {})], Forget(s))
    /\ UNCHANGED <<readyState, store, clock, proc>>

ArriveBatch(s, rawPage, rawLimit) ==
    /\ StartBatch(s, rawPage, rawLimit)
    /\ UNCHANGED pager

(* -------------------------- legacy endpoint --------------------------- *)
\* Variant: the file of a document is copied as it is.
LegacyFeatureRawFile(doc) ==
    [type |-> "Feature",
     geometry |-> IF Falsy(doc.geometry) THEN "Point[0,0]" ELSE doc.geometry,
     properties |-> IF Falsy(doc.properties) THEN "{}" ELSE doc.properties,
     file |-> doc.file,
     _id |-> doc._id]

\* features.push({...}) in the cursor loop (server.js:230-236).
LegacyFeature(doc) ==
    [type |-> "Feature",
     geometry |-> IF Falsy(doc.geometry) THEN "Point[0,0]" ELSE doc.geometry,
     properties |-> IF Falsy(doc.properties) THEN "{}" ELSE doc.properties,
     file |-> IF Falsy(doc.file) THEN "default" ELSE doc.file,
     _id |-> doc._id]

LegacyOk(features) ==
    [NoRes EXCEPT !.code = 200, !.type = "FeatureCollection",
                  !.features = MapSeq(features, LegacyFeature)]

LegacyError500(msg) ==
    [NoRes EXCEPT !.code = 500, !.error = "Failed to fetch features", !.message = msg]

\* Feature.find({}).cursor(): every document, in the order of the collection.
FindAll(S) == MapSeq(SortedIds(S), Doc)

\* A legacy request arrives (server.js:215-229): 503, or the cursor is opened.
ArriveLegacy(s) ==
    /\ Running
    /\ req[s].pc \in {"idle", "done"}
    /\ IF NotConnected
       THEN /\ req' = [req EXCEPT ![s] =
                          Respond([IdleReq EXCEPT !.kind = "legacy"], Error503)]
            /\ obs' = [Forget(s) EXCEPT ![s] = NewObs(s)]
       ELSE /\ req' = [req EXCEPT ![s] = [IdleReq EXCEPT !.kind = "legacy", !.pc = "scan"]]
            /\ obs' = [Forget(s) EXCEPT ![s] = [NewObs(s) EXCEPT !.queries = 1]]
    /\ UNCHANGED <<readyState, store, clock, cachedCount, countCacheTime, cacheQueryTime, pager, proc>>

\* The cursor is exhausted (server.js:229-240).
LegacyReturns(s) ==
    /\ req[s].pc = "scan"
    /\ req' = [req EXCEPT ![s] = Respond(@, LegacyOk(FindAll(store)))]
    /\ obs' = [obs EXCEPT ![s] = [@ EXCEPT !.okAt = 1, !.gotIds = SortedIds(store)]]
    /\ UNCHANGED <<readyState, store, clock, cachedCount, countCacheTime, cacheQueryTime, pager, proc>>

\* Variant: a failed scan is started again.
LegacyThrowsRetries(s, msg) ==
    /\ req[s].pc = "scan"
    /\ req' = [req EXCEPT ![s].attempt = @ + 1]
    /\ obs' = [obs EXCEPT ![s] = [@ EXCEPT !.lastErr = msg, !.queries = @ + 1]]
    /\ UNCHANGED <<readyState, store, clock, cachedCount, countCacheTime, cacheQueryTime, pager, proc>>

\* The cursor throws (server.js:241-247).
LegacyThrows(s, msg) ==
    /\ req[s].pc = "scan"
    /\ req' = [req EXCEPT ![s] = Respond(@, LegacyError500(msg))]
    /\ obs' = [obs EXCEPT ![s] = [@ EXCEPT !.lastErr = msg, !.transient = @ + 1]]
    /\ UNCHANGED <<readyState, store, clock, cachedCount, countCacheTime, cacheQueryTime, pager, proc>>

(* -------------------------- health endpoint --------------------------- *)
\* Variant: a connection being opened is reported as connected.
DbStatusNotClosed == IF readyState # 0 THEN "connected" ELSE "disconnected"

DbStatus == IF readyState = 1 THEN "connected" ELSE "disconnected"

HealthOk(dbStatus) == [NoRes EXCEPT !.code = 200, !.status = "ok", !.database = dbStatus]

\* GET /health (server.js:251-258): answered in the stretch in which it arrives.
Health(s) ==
    /\ Running
    /\ req[s].pc \in {"idle", "done"}
    /\ req' = [req EXCEPT ![s] = Respond([IdleReq EXCEPT !.kind = "health"], HealthOk(DbStatus))]
    /\ obs' = [Forget(s) EXCEPT ![s] =
                  [NewObs(s) EXCEPT !.before =
                      IF req[s].kind = "health" THEN req[s].res.database ELSE ""]]
    /\ UNCHANGED <<readyState, store, clock, cachedCount, countCacheTime, cacheQueryTime, pager, proc>>

(* ------------------------------- timers ------------------------------- *)
\* The backoff timer fires (never early) and the loop runs its next pass.
Wake(s) ==
    /\ req[s].pc = "backoff"
    /\ clock >= req[s].wakeAt
    /\ IF req[s].kind = "count"
       THEN CountAttempt(s, [req[s] EXCEPT !.wakeAt = 0], obs[s], obs)
       ELSE BatchAttempt(s, [req[s] EXCEPT !.wakeAt = 0], obs[s], obs)
    /\ UNCHANGED <<readyState, store, clock, pager, proc>>

(* ----------------------------- environment ---------------------------- *)
Tick(t) ==
    /\ t > clock
    /\ clock' = t
    /\ UNCHANGED <<readyState, store, cachedCount, countCacheTime, cacheQueryTime, req, obs, pager, proc>>

\* readyState: 0 disconnected, 1 connected, 2 connecting
ConnectSucceeds ==
    /\ readyState = 2
    /\ readyState' = 1
    /\ UNCHANGED <<store, clock, cachedCount, countCacheTime, cacheQueryTime, req, obs, pager, proc>>

\* mongoose.connect rejects: the catch block (server.js:65-71).
ConnectFails ==
    /\ readyState = 2
    /\ readyState' = 0
    /\ proc' = [proc EXCEPT !.failed = TRUE, !.exited = ExitsOnFailure(proc.NODE_ENV)]
    /\ UNCHANGED <<store, clock, cachedCount, countCacheTime, cacheQueryTime, req, obs, pager>>

ConnectionLost ==
    /\ readyState = 1
    /\ readyState' = 0
    /\ UNCHANGED <<store, clock, cachedCount, countCacheTime, cacheQueryTime, req, obs, pager, proc>>

\* The driver re-establishes a connection that was lost; connectDB() runs once
\* (server.js:85), so a first connection that failed is not tried again.
Reconnected ==
    /\ ~proc.failed
    /\ readyState = 0
    /\ readyState' = 1
    /\ UNCHANGED <<store, clock, cachedCount, countCacheTime, cacheQueryTime, req, obs, pager, proc>>

\* The histories after a change of the collection.
Disturbed ==
    [s \in Slots |->
        IF req[s].kind = "batch" /\ req[s].pc \notin {"idle", "done"}
        THEN [obs[s] EXCEPT !.wasEmpty = FALSE] ELSE obs[s]]

\* The paging client's record that the collection changed while it was paging.
Watched == IF pager.st # "off" THEN [pager EXCEPT !.dirty = TRUE] ELSE pager

\* Other writers of the collection.
StoreInsert(id) ==
    /\ id \notin store
    /\ store' = store \cup {id}
    /\ obs' = Disturbed
    /\ pager' = Watched
    /\ UNCHANGED <<readyState, clock, cachedCount, countCacheTime, cacheQueryTime, req, proc>>

StoreDelete(id) ==
    /\ id \in store
    /\ store' = store \ {id}
    /\ obs' = Disturbed
    /\ pager' = Watched
    /\ UNCHANGED <<readyState, clock, cachedCount, countCacheTime, cacheQueryTime, req, proc>>

(* ---------------------------- paging client -------------------------- *)
\* The client of the batch endpoint: pages 0, 1, 2, ... with one limit, until a
\* response says hasMore: false.
PagerOff ==
    [st |-> "off", limit |-> 0, page |-> 0, got |-> <<>>, feats |-> <<>>, fetched |-> 0,
     lastLen |-> 0, dirty |-> FALSE]

\* The decimal digits of n, as the client writes them into the query string.
RECURSIVE ToStr(_)
ToStr(n) ==
    IF n < 10 THEN <<DigitChars[n + 1]>>
    ELSE ToStr(n \div 10) \o <<DigitChars[(n % 10) + 1]>>

PagerStart(limit) ==
    /\ pager.st = "off"
    /\ pager' = [pager EXCEPT !.st = "ready", !.limit = limit]
    /\ UNCHANGED <<readyState, store, clock, cachedCount, countCacheTime, cacheQueryTime, req, obs, proc>>

PagerRequest(s) ==
    /\ pager.st = "ready"
    /\ StartBatch(s, ToStr(pager.page), ToStr(pager.limit))
    /\ pager' = [pager EXCEPT !.st = "wait"]

PagerReceive(s) ==
    /\ pager.st = "wait"
    /\ req[s].pc = "done"
    /\ LET res == req[s].res
       IN  pager' =
              IF res.code # 200 THEN [pager EXCEPT !.st = "fail"]
              ELSE [pager EXCEPT !.st = IF res.hasMore THEN "ready" ELSE "fin",
                                 !.page = IF res.hasMore THEN @ + 1 ELSE @,
                                 !.got = @ \o Ids(res.features),
                                 !.feats = @ \o res.features,
                                 !.fetched = @ + 1,
                                 !.lastLen = Len(res.features)]
    /\ UNCHANGED <<readyState, store, clock, cachedCount, countCacheTime, cacheQueryTime, req, obs, proc>>

(* ---------------------------- specification --------------------------- *)
\* connectDB() has been called: the connection is being opened (2), or was not
\* attempted because MONGO_URI is unset (0).
BootInit ==
    /\ \E env \in NodeEnvs, uri \in MongoUris :
          /\ proc = StartProc(env, uri)
          /\ readyState = IF uri = Undefined THEN 0 ELSE 2
    /\ store \in SUBSET DocIds
    /\ clock = 0
    /\ cachedCount = Null
    /\ countCacheTime = 0
    /\ cacheQueryTime = 0
    /\ req = [s \in Slots |-> IdleReq]
    /\ obs = [s \in Slots |-> NoObs]
    /\ pager = PagerOff

\* The server started with NODE_ENV=production.
Init ==
    /\ readyState \in {0, 2}
    /\ proc = StartProc("production", IF readyState = 0 THEN Undefined ELSE "mongodb://db/map")
    /\ store \in SUBSET DocIds
    /\ clock = 0
    /\ cachedCount = Null
    /\ countCacheTime = 0
    /\ cacheQueryTime = 0
    /\ req = [s \in Slots |-> IdleReq]
    /\ obs = [s \in Slots |-> NoObs]
    /\ pager = PagerOff

Environment ==
    \/ \E t \in Instants : Tick(t)
    \/ ConnectionLost
    \/ Reconnected
    \/ ConnectSucceeds
    \/ ConnectFails
    \/ \E id \in DocIds : StoreInsert(id)
    \/ \E id \in DocIds : StoreDelete(id)

\* The steps of count requests in the slots S.
CountSteps(S) ==
    \/ \E s \in S : ArriveCount(s)
    \/ \E s \in S : EstimateReturns(s)
    \/ \E s \in S : EstimateThrows(s)
    \/ \E s \in S : ExactReturns(s)
    \/ \E s \in S, msg \in ErrMsgs : ExactThrows(s, msg)
    \/ \E s \in S : Wake(s)

\* The steps of batch requests in slot s with the query values (page, limit) of Q.
BatchSteps(s, Q) ==
    \/ \E q \in Q : ArriveBatch(s, q[1], q[2])
    \/ BatchReturns(s)
    \/ \E msg \in ErrMsgs : BatchThrows(s, msg)
    \/ Wake(s)

\* The server with a batch request (slot 1) and count requests (the other slots)
\* in flight at the same time.
Next ==
    \/ CountSteps(Slots \ {1})
    \/ BatchSteps(1, {<<<<>>, <<>>>>, <<<<"1">>, <<"1">>>>})
    \/ Environment

Spec == Init /\ [][Next]_vars

\* The count endpoint under concurrent count requests in every slot.
CountNext == CountSteps(Slots) \/ Environment

CountSpec == Init /\ [][CountNext]_vars

\* The batch endpoint over the whole input alphabet; batch requests share no state
\* with each other, so one slot carries them.
BatchNext == BatchSteps(1, PageInputs \X LimitInputs) \/ Environment

BatchSpec == Init /\ [][BatchNext]_vars

\* The paging client against the batch endpoint.
PagerNext ==
    \/ \E limit \in 1..MaxLimit : PagerStart(limit)
    \/ PagerRequest(1)
    \/ PagerReceive(1)
    \/ BatchReturns(1)
    \/ \E msg \in ErrMsgs : BatchThrows(1, msg)
    \/ Wake(1)
    \/ Environment

PagerSpec == Init /\ [][PagerNext]_vars

\* The steps of legacy requests in the slots S.
LegacySteps(S) ==
    \/ \E s \in S : ArriveLegacy(s)
    \/ \E s \in S : LegacyReturns(s)
    \/ \E s \in S : LegacyThrows(s, "network")

\* The connection and the clock; the collection stays as it is.
Connection ==
    \/ \E t \in Instants : Tick(t)
    \/ ConnectionLost
    \/ Reconnected
    \/ ConnectSucceeds
    \/ ConnectFails

\* The whole server: requests of the two retrying endpoints in slot 1, requests of
\* every endpoint in the other slots.
ServerNext ==
    \/ CountSteps(Slots)
    \/ \E s \in Slots : ArriveBatch(s, <<>>, <<>>)
    \/ \E s \in Slots : BatchReturns(s)
    \/ \E s \in Slots : BatchThrows(s, "timeout")
    \/ LegacySteps(Slots \ {1})
    \/ \E s \in Slots \ {1} : Health(s)
    \/ Connection

ServerSpec == Init /\ [][ServerNext]_vars

\* The paging client against the batch endpoint in slot 1 and legacy requests in the
\* other slots, on a collection that stays as it is.
CompareNext ==
    \/ \E limit \in 1..MaxLimit : PagerStart(limit)
    \/ PagerRequest(1)
    \/ PagerReceive(1)
    \/ BatchReturns(1)
    \/ BatchThrows(1, "timeout")
    \/ Wake(1)
    \/ LegacySteps(Slots \ {1})
    \/ Connection

CompareSpec == Init /\ [][CompareNext]_vars

\* The server under fair scheduling: a timer fires when it is due (the clock moves on
\* to the next due timer, never past one that has not fired), and every store query
\* returns or throws. Requests arrive during the first MaxArriveSeconds seconds.
PendingTimers == {req[s].wakeAt : s \in {x \in Slots : req[x].pc = "backoff"}}

TimerTick ==
    \E t \in PendingTimers :
        /\ t > clock
        /\ \A u \in PendingTimers : t <= u
        /\ clock' = t
    /\ UNCHANGED <<readyState, store, cachedCount, countCacheTime, cacheQueryTime, req, obs, pager, proc>>

EarlyCount(s) ==
    /\ clock <= 1000 * MaxArriveSeconds
    /\ ArriveCount(s)

EarlyBatch(s) ==
    /\ clock <= 1000 * MaxArriveSeconds
    /\ ArriveBatch(s, <<>>, <<>>)

EstimateEnds(s) == EstimateReturns(s) \/ EstimateThrows(s)

ExactEnds(s) == ExactReturns(s) \/ ExactThrows(s, "timeout")

BatchEnds(s) == BatchReturns(s) \/ BatchThrows(s, "timeout")

LiveInit == Init /\ store = DocIds

LiveNext ==
    \/ EarlyBatch(1)
    \/ BatchEnds(1)
    \/ \E s \in Slots \ {1} : EarlyCount(s)
    \/ \E s \in Slots \ {1} : EstimateEnds(s)
    \/ \E s \in Slots \ {1} : ExactEnds(s)
    \/ \E s \in Slots : Wake(s)
    \/ TimerTick
    \/ ConnectionLost
    \/ Reconnected
    \/ ConnectSucceeds
    \/ ConnectFails

LiveSpec ==
    /\ LiveInit
    /\ [][LiveNext]_vars
    /\ WF_vars(TimerTick)
    /\ WF_vars(BatchEnds(1))
    /\ \A s \in Slots : WF_vars(Wake(s))
    /\ \A s \in Slots \ {1} : WF_vars(EstimateEnds(s)) /\ WF_vars(ExactEnds(s))

\* The server from its start in any environment: the four endpoints and the
\* connection, at one instant (no timer fires).
BootNext ==
    \/ \E s \in Slots : ArriveCount(s)
    \/ \E s \in Slots : EstimateEnds(s)
    \/ \E s \in Slots : ExactEnds(s)
    \/ \E s \in Slots : ArriveBatch(s, <<>>, <<>>)
    \/ \E s \in Slots : BatchEnds(s)
    \/ LegacySteps(Slots)
    \/ \E s \in Slots : Health(s)
    \/ ConnectSucceeds
    \/ ConnectFails
    \/ ConnectionLost
    \/ Reconnected

BootSpec == BootInit /\ [][BootNext]_vars

(* ------------------------------- claims ------------------------------- *)
Answered(s, kind) == req[s].kind = kind /\ req[s].pc = "done"

Answered200(s, kind) == Answered(s, kind) /\ req[s].res.code = 200

\* The ids at positions page*limit .. min(N, (page+1)*limit) - 1 of S sorted ascending.
SliceIds(S, page, limit) ==
    LET all == SortedIds(S)
        lo == page * limit
        hi == Min(Len(all), (page + 1) * limit)
        n == IF hi > lo THEN hi - lo ELSE 0
    IN  [i \in 1..n |-> all[lo + i]]

\* C1 as stated: of two count requests answered 200, the second made after the
\* first was answered and less than 30 s after it (neither retried, so each read the
\* clock when it was made), both carry the same count and the second is cached: true.
C1_TwoCountsWithinTtl ==
    \A a, b \in Slots :
        (/\ a # b
         /\ Answered200(a, "count") /\ Answered200(b, "count")
         /\ a \in obs[b].prior
         /\ req[a].attempt = 0 /\ req[b].attempt = 0
         /\ req[b].now - req[a].now < 30000)
        => (req[b].res.count = req[a].res.count /\ req[b].res.cached)

\* C1 amended: of two count requests answered 200, where the first was answered
\* cached: false and the second checked the cache while it held the first's count and
\* timestamp, less than 30 s after that timestamp, both carry the same count and the
\* second is cached: true.
C1_SecondServedFromFirstEntry ==
    \A a, b \in Slots :
        (/\ a # b
         /\ Answered200(a, "count") /\ Answered200(b, "count")
         /\ ~req[a].res.cached
         /\ a \in obs[b].seenFrom
         /\ req[b].now - req[a].now < 30000)
        => (req[b].res.count = req[a].res.count /\ req[b].res.cached)

C1_Witness ==
    \E a, b \in Slots :
        /\ a # b
        /\ Answered200(a, "count") /\ Answered200(b, "count")
        /\ ~req[a].res.cached
        /\ a \in obs[b].seenFrom
        /\ req[b].now > req[a].now /\ req[b].now - req[a].now < 30000
        /\ req[b].res.cached
        /\ Cardinality(store) # req[b].res.count

\* C2: a count request that finds the store connected and the cache empty or 30000 ms
\* or more old is not answered from the cache (it has queried the store); and the step
\* in which its query returns answers cached: false with the count just obtained and
\* puts that count and the request's timestamp into the cache.
C2_StaleCacheIsRefreshed ==
    /\ [](\A s \in Slots :
            (req[s].kind = "count" /\ obs[s].cacheAtCheck \in {"empty", "expired"})
            => (/\ obs[s].queries >= 1
                /\ ~(req[s].pc = "done" /\ req[s].res.cached)))
    /\ [][\A s \in Slots :
            (/\ req[s].kind = "count" /\ req[s].pc \in {"estimate", "exact"}
             /\ req'[s].pc = "done" /\ req'[s].res.code = 200)
            => (/\ req'[s].res.count = Cardinality(store)
                /\ ~req'[s].res.cached
                /\ cachedCount' = Cardinality(store)
                /\ countCacheTime' = req[s].now)]_vars

C2_Witness ==
    \E s \in Slots :
        /\ Answered200(s, "count") /\ ~req[s].res.cached
        /\ obs[s].cacheAtCheck = "expired"
        /\ cachedCount = req[s].res.count /\ countCacheTime = req[s].now
        /\ req[s].now >= 30000

\* C3: a count or batch request that arrives while readyState is not 1 is answered
\* 503 at once: no store query, no failed attempt, no backoff wait; for a count request
\* also when the cache holds a fresh entry.
C3_NotReadyAnswers503 ==
    \A s \in Slots :
        (req[s].kind \in {"count", "batch"} /\ obs[s].ready0 # 1)
        => (/\ req[s].pc = "done"
            /\ req[s].res = Error503
            /\ obs[s].queries = 0
            /\ req[s].attempt = 0
            /\ obs[s].waits = <<>>
            /\ req[s].wakeAt = 0)

C3_Witness ==
    \E c, b \in Slots :
        /\ Answered(c, "count") /\ obs[c].ready0 # 1 /\ req[c].res.code = 503
        /\ cachedCount # Null /\ clock - countCacheTime < 30000
        /\ Answered(b, "batch") /\ obs[b].ready0 # 1 /\ req[b].res.code = 503

\* C4: the step in which the query of the third attempt of a count or batch request
\* returns, after the first two attempts threw, answers 200 with what the store holds
\* at that moment (its count; the requested page of the collection sorted by _id); a
\* request answered after two throws and a successful third attempt carries that data;
\* and a request is answered 500 only after three failed attempts.
C4_ThirdAttemptSucceeds ==
    /\ [](\A s \in Slots :
            req[s].pc = "done" =>
                /\ (req[s].attempt = 2 /\ obs[s].okAt = 3) =>
                      /\ req[s].res.code = 200
                      /\ req[s].kind = "count" =>
                            (req[s].res.count = obs[s].gotCount /\ ~req[s].res.cached)
                      /\ req[s].kind = "batch" =>
                            Ids(req[s].res.features) = obs[s].gotIds
                /\ req[s].res.code = 500 => req[s].attempt = 3)
    /\ [][\A s \in Slots :
            (/\ req[s].attempt = 2 /\ req[s].pc \in {"estimate", "exact", "query"}
             /\ req'[s].pc = "done" /\ req'[s].attempt = 2)
            => (/\ req'[s].res.code = 200
                /\ obs'[s].okAt = 3
                /\ req[s].kind = "count" => req'[s].res.count = Cardinality(store)
                /\ (req[s].kind = "batch" /\ req[s].page >= 0 /\ req[s].limit > 0) =>
                      (/\ Ids(req'[s].res.features)
                            = SliceIds(store, req[s].page, req[s].limit)
                       /\ req'[s].res.count = Len(req'[s].res.features)))]_vars

C4_Witness ==
    \E c, b \in Slots :
        /\ Answered200(c, "count") /\ req[c].attempt = 2 /\ obs[c].okAt = 3
        /\ req[c].res.count = MaxDocs /\ obs[c].transient = 2
        /\ Answered200(b, "batch") /\ req[b].attempt = 2 /\ obs[b].okAt = 3
        /\ Len(req[b].res.features) = MaxDocs /\ obs[b].transient = 2

\* C5: in every 200 batch response with page >= 0 and limit > 0, hasMore is true
\* exactly when the number of features returned equals limit.
C5_HasMoreIffFullPage ==
    \A s \in Slots :
        (Answered200(s, "batch") /\ req[s].res.page >= 0 /\ req[s].res.limit > 0)
        => (req[s].res.hasMore <=> (Len(req[s].res.features) = req[s].res.limit))

C5_Witness ==
    \E s \in Slots :
        /\ Answered200(s, "batch")
        /\ req[s].res.page = 0 /\ req[s].res.limit = 2
        /\ req[s].res.hasMore /\ Len(req[s].res.features) = 2

\* C6: a missing page is page 0 and a missing limit is limit 500; and the step in
\* which the query of a batch request with page >= 0 and limit > 0 returns answers
\* with the features at positions page*limit .. min(N, (page+1)*limit) - 1 of the
\* collection sorted by _id, in that order, with page and limit echoed and count the
\* number of features.
C6_PageIsSliceOfSorted ==
    /\ [](\A s \in Slots :
            (req[s].kind = "batch" /\ obs[s].ready0 = 1)
            => (/\ req[s].rawPage = <<>> => req[s].page = 0
                /\ req[s].rawLimit = <<>> => req[s].limit = 500))
    /\ [][\A s \in Slots :
            (/\ req[s].kind = "batch" /\ req[s].pc = "query"
             /\ req'[s].pc = "done" /\ req'[s].res.code = 200
             /\ req[s].page >= 0 /\ req[s].limit > 0)
            => LET slice == SliceIds(store, req[s].page, req[s].limit)
               IN  /\ Ids(req'[s].res.features) = slice
                   /\ req'[s].res.page = req[s].page
                   /\ req'[s].res.limit = req[s].limit
                   /\ req'[s].res.count = Len(slice)]_vars

C6_Witness ==
    \E s \in Slots :
        /\ Answered200(s, "batch")
        /\ req[s].rawPage = <<"1">> /\ req[s].rawLimit = <<"1">>
        /\ store = {1, 2}
        /\ Ids(req[s].res.features) = <<2>>
        /\ req[s].res.page = 1 /\ req[s].res.limit = 1 /\ req[s].res.count = 1

\* C7: a client that has paged through an unchanged collection of N features with
\* limit L, stopping at the first hasMore: false, has received every feature once, in
\* ascending _id order, in N div L + 1 requests, the last page being empty exactly
\* when L divides N.
C7_PagingVisitsAllOnce ==
    (pager.st = "fin" /\ ~pager.dirty)
    => LET N == Cardinality(store)
           L == pager.limit
       IN  /\ pager.got = SortedIds(store)
           /\ pager.fetched = (N \div L) + 1
           /\ (pager.lastLen = 0) <=> (N % L = 0)

C7_Witness ==
    /\ pager.st = "fin" /\ ~pager.dirty
    /\ store = {1, 2} /\ pager.limit = 1
    /\ pager.fetched = 3 /\ pager.lastLen = 0 /\ pager.got = <<1, 2>>

\* C8: with the store connected and empty for the whole request and no transient
\* failure, a batch request for any page and limit is answered 200 with
\* features = [], hasMore = false, count = 0.
C8_EmptyStoreAnyPage ==
    \A s \in Slots :
        (/\ Answered(s, "batch") /\ req[s].res.code # 503
         /\ obs[s].wasEmpty /\ obs[s].transient = 0)
        => (/\ req[s].res.code = 200
            /\ req[s].res.features = <<>>
            /\ ~req[s].res.hasMore
            /\ req[s].res.count = 0)

\* C9: a count request makes at most 3 attempts; after its k-th failed attempt
\* (k < 3) it waits 1000 * k ms, the next attempt starting no earlier than that long
\* after the failure; after the third it is answered 500 with the message of the error
\* thrown last, and it is answered 500 in no other case.
C9_CountRetriesLinear ==
    /\ [](\A s \in Slots :
            req[s].kind = "count" =>
                /\ req[s].attempt <= 3
                /\ Len(obs[s].waits) = (IF req[s].attempt < 3 THEN req[s].attempt ELSE 2)
                /\ \A k \in 1..Len(obs[s].waits) : obs[s].waits[k] = 1000 * k
                /\ req[s].attempt = 3 =>
                      /\ req[s].pc = "done"
                      /\ req[s].res.code = 500
                      /\ req[s].res.message = obs[s].lastErr
                      /\ req[s].res.message \in ErrMsgs
                /\ (req[s].pc = "done" /\ req[s].res.code = 500) => req[s].attempt = 3)
    /\ [][\A s \in Slots :
            req[s].kind = "count" =>
                /\ (req[s].pc # "backoff" /\ req'[s].pc = "backoff") =>
                      req'[s].wakeAt = clock + 1000 * req'[s].attempt
                /\ (req[s].pc = "backoff" /\ req'[s].pc # "backoff") =>
                      clock >= req[s].wakeAt]_vars

C9_Witness ==
    \E s \in Slots :
        /\ Answered(s, "count") /\ req[s].attempt = 3 /\ req[s].res.code = 500
        /\ obs[s].waits = <<1000, 2000>>
        /\ req[s].res.message = "network"
        /\ obs[s].ready0 = 1 /\ readyState = 1

\* C10: a batch request makes at most 3 attempts; after its k-th failed attempt
\* (k < 3) it waits min(1000 * 2^(k-1), 5000) ms; after the third it is answered 500
\* with the message of the error thrown last and attempts = 3, and it is answered 500
\* in no other case; the next attempt starts no earlier than the wait after the failure.
C10_BatchRetriesExponential ==
    /\ [](\A s \in Slots :
            req[s].kind = "batch" =>
                /\ req[s].attempt <= 3
                /\ Len(obs[s].waits) = (IF req[s].attempt < 3 THEN req[s].attempt ELSE 2)
                /\ \A k \in 1..Len(obs[s].waits) :
                      obs[s].waits[k] = Min(1000 * Pow2(k - 1), 5000)
                /\ req[s].attempt = 3 =>
                      /\ req[s].pc = "done"
                      /\ req[s].res.code = 500
                      /\ req[s].res.message = obs[s].lastErr
                      /\ req[s].res.message \in ErrMsgs
                      /\ req[s].res.attempts = 3
                /\ (req[s].pc = "done" /\ req[s].res.code = 500) => req[s].attempt = 3)
    /\ [][\A s \in Slots :
            req[s].kind = "batch" =>
                /\ (req[s].pc # "backoff" /\ req'[s].pc = "backoff") =>
                      req'[s].wakeAt = clock + Min(1000 * Pow2(req'[s].attempt - 1), 5000)
                /\ (req[s].pc = "backoff" /\ req'[s].pc # "backoff") =>
                      clock >= req[s].wakeAt]_vars

C10_Witness ==
    \E s \in Slots :
        /\ Answered(s, "batch") /\ req[s].attempt = 3 /\ req[s].res.code = 500
        /\ obs[s].waits = <<1000, 2000>>
        /\ req[s].res.message = "timeout" /\ req[s].res.attempts = 3
        /\ obs[s].transient = 3

\* C11: within an attempt of a count request the exact count is queried only after the
\* estimate threw, and then at once, without consuming a retry or waiting; an estimate
\* that returns ends the attempt without an exact query; an exact count that returns
\* answers 200, cached: false, with that count, and puts it into the cache; and the
\* attempt counter grows only when the exact count threw (so every failed attempt made
\* two queries).
C11_ExactOnlyAfterEstimateThrew ==
    /\ [](\A s \in Slots :
            req[s].kind = "count" =>
                /\ req[s].pc = "estimate" => obs[s].queries = 2 * req[s].attempt + 1
                /\ req[s].pc = "exact" => obs[s].queries = 2 * req[s].attempt + 2
                /\ obs[s].transient = req[s].attempt)
    /\ [][\A s \in Slots :
            req[s].kind = "count" =>
                /\ (req'[s].pc = "exact" /\ req[s].pc # "exact") =>
                      /\ req[s].pc = "estimate"
                      /\ req'[s].attempt = req[s].attempt
                      /\ obs'[s].waits = obs[s].waits
                      /\ obs'[s].queries = obs[s].queries + 1
                      /\ UNCHANGED <<cachedCount, countCacheTime>>
                /\ (req[s].pc = "estimate" /\ req'[s].pc = "done") =>
                      /\ obs'[s].queries = obs[s].queries
                      /\ req'[s].res.code = 200
                /\ (req[s].pc = "exact" /\ req'[s].pc = "done" /\ req'[s].res.code = 200) =>
                      /\ req'[s].attempt = req[s].attempt
                      /\ obs'[s].waits = obs[s].waits
                      /\ req'[s].res.count = Cardinality(store)
                      /\ ~req'[s].res.cached
                      /\ cachedCount' = Cardinality(store)
                      /\ countCacheTime' = req[s].now
                /\ (req'[s].kind = "count" /\ req'[s].attempt > req[s].attempt) =>
                      req[s].pc = "exact"]_vars

C11_Witness ==
    \E s \in Slots :
        /\ Answered200(s, "count") /\ ~req[s].res.cached
        /\ req[s].attempt = 0 /\ obs[s].waits = <<>> /\ obs[s].queries = 2
        /\ req[s].res.count = MaxDocs /\ cachedCount = MaxDocs

\* A query value that is missing, does not start with a digit (non-numeric or
\* negative), or is zero.
NotPositive(raw) == raw = <<>> \/ ~IsDigit(raw[1]) \/ raw = <<"0">>

\* C12: a batch request handled with the store connected whose page is missing,
\* non-numeric, negative (or zero) runs with page 0; one whose limit is missing,
\* non-numeric, zero or negative runs with limit 500; and such a request, if no query
\* fails transiently, is answered 200.
C12_InvalidValuesDefaulted ==
    \A s \in Slots :
        (req[s].kind = "batch" /\ obs[s].ready0 = 1) =>
            /\ NotPositive(req[s].rawPage) => req[s].page = 0
            /\ NotPositive(req[s].rawLimit) => req[s].limit = 500
            /\ (/\ NotPositive(req[s].rawPage) \/ NotPositive(req[s].rawLimit)
                /\ req[s].pc = "done" /\ obs[s].transient = 0 /\ req[s].res.code # 503)
               => req[s].res.code = 200

\* C13: every health response has status "ok" and says "connected" exactly when
\* readyState was 1 at the call, "disconnected" otherwise; a health call is answered in
\* the step in which it arrives, from the connection state of that moment alone:
\* whatever the previous health call reported, the cache holds, or other requests do.
C13_HealthReflectsConnection ==
    /\ [](\A s \in Slots :
            req[s].kind = "health" =>
                /\ req[s].pc = "done"
                /\ req[s].res.code = 200
                /\ req[s].res.status = "ok"
                /\ req[s].res.database =
                      (IF obs[s].ready0 = 1 THEN "connected" ELSE "disconnected")
                /\ obs[s].queries = 0 /\ req[s].attempt = 0 /\ obs[s].waits = <<>>)
    /\ [][\A s \in Slots :
            (/\ req'[s].kind = "health"
             /\ <<req[s], obs[s].ready0, obs[s].before>>
                   # <<req'[s], obs'[s].ready0, obs'[s].before>>)
            => (/\ req'[s].res.database =
                      (IF readyState = 1 THEN "connected" ELSE "disconnected")
                /\ obs'[s].ready0 = readyState
                /\ UNCHANGED <<readyState, cachedCount, countCacheTime>>
                /\ \A t \in Slots \ {s} : req'[t] = req[t])]_vars

C13_Witness ==
    \E s, t \in Slots :
        /\ Answered(s, "health")
        /\ req[s].res.database = "disconnected" /\ obs[s].before = "connected"
        /\ cachedCount # Null /\ clock - countCacheTime < 30000
        /\ req[t].pc = "backoff" /\ clock < req[t].wakeAt

\* C14 as stated: a legacy request scans the store at most once, never retries and
\* never waits in backoff, and every response of it that is not the 200 one is 500.
C14_LegacyFailsWith500 ==
    \A s \in Slots :
        req[s].kind = "legacy" =>
            /\ obs[s].queries <= 1 /\ req[s].attempt = 0
            /\ obs[s].waits = <<>> /\ req[s].pc # "backoff"
            /\ (req[s].pc = "done" /\ req[s].res.code # 200) => req[s].res.code = 500

\* C14 amended: a legacy request scans the store at most once, never retries and
\* never waits in backoff; it is answered 503, without a scan, exactly when the
\* connection is not ready at its arrival; a scan that throws is answered 500 with the
\* error's message, a scan that returns 200 with the collection.
C14_LegacySingleScan ==
    \A s \in Slots :
        req[s].kind = "legacy" =>
            /\ obs[s].queries <= 1 /\ req[s].attempt = 0
            /\ obs[s].waits = <<>> /\ req[s].pc \in {"scan", "done"} /\ req[s].wakeAt = 0
            /\ req[s].pc = "done" =>
                  /\ req[s].res.code \in {200, 500, 503}
                  /\ req[s].res.code = 503 <=> obs[s].ready0 # 1
                  /\ req[s].res.code = 503 => obs[s].queries = 0
                  /\ req[s].res.code = 500 =>
                        /\ obs[s].queries = 1
                        /\ req[s].res.message = obs[s].lastErr
                        /\ req[s].res.message \in ErrMsgs
                  /\ req[s].res.code = 200 =>
                        /\ obs[s].queries = 1
                        /\ req[s].res.type = "FeatureCollection"
                        /\ Ids(req[s].res.features) = obs[s].gotIds

C14_Witness ==
    \E s, t \in Slots :
        /\ Answered(s, "legacy") /\ req[s].res.code = 500
        /\ req[s].res.message = "network" /\ obs[s].queries = 1
        /\ readyState = 1 /\ store # {}
        /\ req[t].pc = "backoff"

\* C15: a count or batch request sends nothing before it ends and, once answered,
\* keeps that one response; the response is either a complete 200 body (the count
\* cached or returned by the query of the last attempt; the page returned by the query
\* of the last attempt) or an error body (503 or 500) that carries no data.
C15_OneCompleteResponse ==
    /\ [](\A s \in Slots :
            req[s].kind \in {"count", "batch"} =>
                /\ req[s].pc # "done" => req[s].res = NoRes
                /\ req[s].pc = "done" =>
                      \/ /\ req[s].kind = "count" /\ req[s].res.code = 200
                         /\ req[s].res = [NoRes EXCEPT !.code = 200,
                                                       !.count = req[s].res.count,
                                                       !.cached = req[s].res.cached]
                         /\ req[s].res.count >= 0
                         /\ ~req[s].res.cached =>
                               (/\ obs[s].okAt = req[s].attempt + 1
                                /\ req[s].res.count = obs[s].gotCount)
                         /\ req[s].res.cached => obs[s].okAt = 0
                      \/ /\ req[s].kind = "batch" /\ req[s].res.code = 200
                         /\ obs[s].okAt = req[s].attempt + 1
                         /\ Ids(req[s].res.features) = obs[s].gotIds
                         /\ req[s].res.count = Len(req[s].res.features)
                         /\ req[s].res.error = "" /\ req[s].res.message = ""
                         /\ req[s].res.attempts = 0
                      \/ /\ req[s].res = Error503
                         /\ obs[s].okAt = 0
                      \/ /\ req[s].res.code = 500
                         /\ obs[s].okAt = 0
                         /\ req[s].res.error # "" /\ req[s].res.message = obs[s].lastErr
                         /\ req[s].res.features = <<>> /\ req[s].res.count = Null
                         /\ ~req[s].res.hasMore /\ ~req[s].res.cached)
    /\ [][\A s \in Slots :
            (/\ req[s].kind \in {"count", "batch"} /\ req[s].pc = "done"
             /\ req'[s] # req[s])
            => (/\ req'[s].attempt = 0
                /\ obs'[s].waits = <<>> /\ obs'[s].queries <= 1
                /\ obs'[s].okAt = 0 /\ obs'[s].transient = 0)]_vars

C15_Witness ==
    \E b, c \in Slots :
        /\ Answered200(b, "batch") /\ req[b].attempt = 1 /\ obs[b].transient = 1
        /\ Len(req[b].res.features) = MaxDocs
        /\ Answered(c, "count") /\ req[c].res.code = 500 /\ obs[c].queries = 6

\* C16: the cache changes only in the step in which the query of a count request
\* returns, and that step writes the request's count and the request's timestamp
\* together; so the cache always holds the pair of the request that wrote last, and
\* once every slot holds a count request answered cached: false the cache holds the
\* pair of one of them. Before the first write the cache is (null, 0).
C16_CachePairWrittenTogether ==
    /\ [](/\ cachedCount = Null => countCacheTime = 0
          /\ (\A s \in Slots : Answered200(s, "count") /\ ~req[s].res.cached)
             => \E s \in Slots :
                   <<cachedCount, countCacheTime>> = <<req[s].res.count, req[s].now>>)
    /\ [][/\ <<cachedCount, countCacheTime>>' # <<cachedCount, countCacheTime>>
             => \E s \in Slots :
                   /\ req[s].kind = "count" /\ req[s].pc \in {"estimate", "exact"}
                   /\ req'[s].pc = "done" /\ req'[s].res.code = 200
          /\ \A s \in Slots :
                (/\ req[s].kind = "count" /\ req[s].pc \in {"estimate", "exact"}
                 /\ req'[s].pc = "done" /\ req'[s].res.code = 200)
                => (/\ ~req'[s].res.cached
                    /\ <<cachedCount, countCacheTime>>'
                          = <<req'[s].res.count, req[s].now>>)]_vars

C16_Witness ==
    \E a, b \in Slots :
        /\ Answered200(a, "count") /\ ~req[a].res.cached
        /\ Answered200(b, "count") /\ ~req[b].res.cached
        /\ a \notin obs[b].prior /\ b \notin obs[a].prior
        /\ req[a].now < req[b].now /\ req[a].res.count # req[b].res.count
        /\ <<cachedCount, countCacheTime>> = <<req[a].res.count, req[a].now>>

Waiting(s) == req[s].pc \in {"estimate", "exact", "query", "scan", "backoff"}

\* C17: while a count or batch request waits for its backoff timer or for a store
\* query, every free slot can take and handle a count, batch or health request, and
\* every other waiting request can go on as soon as its own query returns or its own
\* timer is due; and no step changes a request waiting in backoff except the firing of
\* its own timer.
C17_RetryBlocksNobody ==
    /\ [](\A s, t \in Slots :
            (/\ s # t /\ req[s].kind \in {"count", "batch"} /\ Waiting(s))
            => (/\ req[t].pc \in {"idle", "done"} =>
                      /\ ENABLED ArriveCount(t)
                      /\ ENABLED ArriveBatch(t, <<>>, <<>>)
                      /\ ENABLED Health(t)
                /\ req[t].pc = "estimate" => ENABLED EstimateReturns(t)
                /\ req[t].pc = "exact" => ENABLED ExactReturns(t)
                /\ (req[t].pc = "query" /\ req[t].page >= 0 /\ req[t].limit > 0)
                      => ENABLED BatchReturns(t)
                /\ (req[t].pc = "backoff" /\ clock >= req[t].wakeAt) => ENABLED Wake(t)))
    /\ [][\A s \in Slots :
            req[s].pc = "backoff"
            => \/ req'[s] = req[s]
               \/ clock >= req[s].wakeAt /\ req'[s].pc # "backoff"]_vars

\* The second request arrived at 1000 and is answered; the first, which arrived at 0
\* and has failed twice, still waits for its timer.
C17_Witness ==
    \E s, t \in Slots :
        /\ s # t
        /\ req[s].kind = "count" /\ req[s].pc = "backoff" /\ req[s].attempt = 2
        /\ req[s].wakeAt = 3000 /\ clock = 1000
        /\ Answered200(t, "count") /\ req[t].attempt = 0 /\ req[t].now = 1000
        /\ ~req[t].res.cached

\* C18 as stated: a count or batch request is answered 503 only on its first attempt,
\* never after a failed attempt and a backoff wait.
C18_Only503OnFirstAttempt ==
    \A s \in Slots :
        (req[s].kind \in {"count", "batch"} /\ req[s].pc = "done" /\ req[s].res.code = 503)
        => (req[s].attempt = 0 /\ obs[s].waits = <<>>)

\* C18 amended: every attempt of a count or batch request, the first and the ones
\* after a backoff wait, starts by checking the connection and answers 503 exactly when
\* it is not ready; a 503 ends the request (it is not retried), after as many backoff
\* waits as attempts had failed before.
C18_EveryAttemptChecksConnection ==
    /\ [](\A s \in Slots :
            (req[s].kind \in {"count", "batch"} /\ req[s].res.code = 503)
            => (/\ req[s].pc = "done"
                /\ req[s].attempt < 3
                /\ Len(obs[s].waits) = req[s].attempt
                /\ obs[s].okAt = 0))
    /\ [][\A s \in Slots :
            (/\ req'[s].kind \in {"count", "batch"}
             /\ req[s].pc \in {"idle", "done", "backoff"}
             /\ req'[s] # req[s])
            => ((req'[s].pc = "done" /\ req'[s].res.code = 503) <=> readyState # 1)]_vars

C18_Witness ==
    \E c, b \in Slots :
        /\ Answered(c, "count") /\ req[c].res.code = 503
        /\ req[c].attempt = 2 /\ obs[c].waits = <<1000, 2000>> /\ obs[c].ready0 = 1
        /\ Answered(b, "batch") /\ req[b].res.code = 503
        /\ req[b].attempt = 1 /\ obs[b].waits = <<1000>> /\ obs[b].ready0 = 1

\* C19: cachedCount and countCacheTime change only in the step in which the query of
\* a count request returns and the request is answered 200, cached: false; a step that
\* answers 503 or 500 or from the cache, that fails an attempt, that issues a query or
\* starts a wait, and every step of a batch, legacy or health request leaves both as
\* they are.
C19_OnlyCountSuccessWritesCache ==
    /\ [][<<cachedCount, countCacheTime>>' # <<cachedCount, countCacheTime>>
          => \E s \in Slots :
                /\ req[s].kind = "count" /\ req[s].pc \in {"estimate", "exact"}
                /\ req'[s].kind = "count" /\ req'[s].pc = "done"
                /\ req'[s].res.code = 200 /\ ~req'[s].res.cached]_vars
    /\ [][\A s \in Slots :
            (/\ req'[s] # req[s]
             /\ \/ req'[s].kind \in {"batch", "legacy", "health"}
                \/ req'[s].res.code \in {500, 503}
                \/ req'[s].res.cached
                \/ req'[s].pc \in {"estimate", "exact", "backoff"})
            => UNCHANGED <<cachedCount, countCacheTime>>]_vars

C19_Witness ==
    \E b, l \in Slots :
        /\ cachedCount # Null /\ countCacheTime = 0 /\ clock >= 3000
        /\ Answered(b, "batch") /\ req[b].res.code = 500
        /\ Answered200(l, "legacy")

\* C20: the query whose result the cache holds was issued at or after the cache
\* timestamp; and every response tagged cached: true carries the count the cache holds
\* at that moment, obtained by a query issued at most 30000 ms, and less than that,
\* before the cache is read.
C20_CachedCountYoungerThanTtl ==
    /\ [](cachedCount # Null =>
            (countCacheTime <= cacheQueryTime /\ cacheQueryTime <= clock))
    /\ [][\A s \in Slots :
            (/\ req[s].kind = "count" /\ req[s].pc \in {"estimate", "exact"}
             /\ req'[s].pc = "done" /\ req'[s].res.code = 200)
            => (/\ cacheQueryTime' = obs[s].askedAt
                /\ req[s].now <= obs[s].askedAt
                /\ cachedCount' = Cardinality(store))]_vars
    /\ [][\A s \in Slots :
            (/\ req'[s].kind = "count" /\ req'[s].pc = "done" /\ req'[s].res.cached
             /\ req'[s] # req[s])
            => (/\ req'[s].res.count = cachedCount
                /\ req'[s].now = clock
                /\ 0 <= clock - cacheQueryTime
                /\ clock - cacheQueryTime < 30000)]_vars

C20_Witness ==
    \E s \in Slots :
        /\ Answered200(s, "count") /\ req[s].res.cached
        /\ req[s].now = 3000 /\ clock = 3000
        /\ countCacheTime = 0 /\ cacheQueryTime = 1000
        /\ req[s].res.count = cachedCount /\ Cardinality(store) # cachedCount

\* C21: countCacheTime never decreases: no step replaces the cache timestamp by an
\* older one.
C21_CacheTimeNeverDecreases == [][countCacheTime' >= countCacheTime]_vars

\* C22: a count or batch request makes at most 3 attempts and at most 2 backoff
\* waits, ends only with a response (200, 500 or 503), and, when timers fire and every
\* store query returns or throws, a request that is waiting is eventually answered.
C22_EveryRequestAnswered ==
    /\ [](\A s \in Slots :
            /\ req[s].attempt <= 3
            /\ Len(obs[s].waits) <= 2
            /\ req[s].pc = "done" => req[s].res.code \in {200, 500, 503})
    /\ \A s \in Slots : Waiting(s) ~> (req[s].pc = "done")

C22_Witness ==
    \E c, b \in Slots :
        /\ Answered(c, "count") /\ req[c].res.code = 500
        /\ req[c].attempt = 3 /\ Len(obs[c].waits) = 2
        /\ Answered200(b, "batch") /\ req[b].attempt = 2 /\ Len(obs[b].waits) = 2

\* C23: on an unchanged collection, the features of a 200 legacy response are, as a
\* set, the features of the batch pages 0, 1, 2, ... fetched with one limit > 0 up to
\* the first hasMore: false; there is one feature per stored record, of type "Feature",
\* with the record's _id, and with Point [0,0], {} and "default" in place of an absent
\* geometry, properties and file.
C23_LegacyEqualsBatchPages ==
    \A s \in Slots :
        (pager.st = "fin" /\ Answered200(s, "legacy")) =>
            LET legacy == {req[s].res.features[i] : i \in 1..Len(req[s].res.features)}
                paged == {pager.feats[i] : i \in 1..Len(pager.feats)}
            IN  /\ legacy = paged
                /\ {f._id : f \in legacy} = store
                /\ Cardinality(legacy) = Cardinality(store)
                /\ \A f \in legacy :
                      LET d == Doc(f._id)
                      IN  /\ f.type = "Feature"
                          /\ f.geometry = IF d.geometry = Undefined THEN "Point[0,0]"
                                          ELSE d.geometry
                          /\ f.properties = IF d.properties = Undefined THEN "{}"
                                            ELSE d.properties
                          /\ d.file = Undefined => f.file = "default"
                          /\ d.file \notin {Undefined, ""} => f.file = d.file

C23_Witness ==
    \E s \in Slots :
        /\ pager.st = "fin" /\ pager.limit = 1 /\ pager.fetched = 3
        /\ Answered200(s, "legacy")
        /\ store = {1, 2}
        /\ Doc(2).geometry = Undefined /\ Doc(2).properties = Undefined
        /\ Doc(2).file = Undefined
        /\ Len(req[s].res.features) = 2 /\ Len(pager.feats) = 2

\* C24: the process exits only after a failed first connection (MONGO_URI unset
\* included) and only when NODE_ENV is 'development'; with any other NODE_ENV, unset
\* included, it keeps running and takes requests; and as long as the first connection
\* has failed (no connection is established after that), readyState is 0, every count, batch and
\* legacy request that arrives is answered 503 "Database not connected" in the same
\* step, and every health request is answered 200 with database "disconnected".
C24_ExitOnlyInDevelopment ==
    /\ [](/\ proc.exited => (proc.failed /\ proc.NODE_ENV = "development")
          /\ proc.MONGO_URI = Undefined => proc.failed
          /\ proc.failed => readyState = 0
          /\ proc.NODE_ENV # "development" =>
                /\ ~proc.exited
                /\ \A s \in Slots :
                      req[s].pc \in {"idle", "done"} =>
                          /\ ENABLED ArriveCount(s)
                          /\ ENABLED ArriveBatch(s, <<>>, <<>>)
                          /\ ENABLED ArriveLegacy(s)
                          /\ ENABLED Health(s))
    /\ [][\A s \in Slots :
            (proc.failed /\ req[s].pc \in {"idle", "done"} /\ req'[s] # req[s]) =>
                /\ req'[s].pc = "done"
                /\ req'[s].kind \in {"count", "batch", "legacy", "health"}
                /\ req'[s].kind = "health" =>
                      /\ req'[s].res.code = 200
                      /\ req'[s].res.database = "disconnected"
                /\ req'[s].kind # "health" => req'[s].res = Error503]_vars

C24_Witness ==
    \E s, t \in Slots :
        /\ proc.failed /\ ~proc.exited
        /\ proc.NODE_ENV = Undefined /\ proc.MONGO_URI # Undefined
        /\ Answered(s, "batch") /\ req[s].res = Error503 /\ obs[s].ready0 = 0
        /\ Answered(t, "health") /\ req[t].res.database = "disconnected"
        /\ obs[t].ready0 = 0

====
